---- MODULE Spec2Model ----
(***************************************************************************)
(* Model of app.py: the /crawl endpoint (crawl_domains), the per-domain    *)
(* crawl (crawl_domain), the retried Playwright fetch                      *)
(* (fetch_html_with_playwright) and the two pure helpers extract_urls and  *)
(* filter_product_urls.                                                    *)
(*                                                                         *)
(* Strings are sequences of tokens.  A URL is a token sequence in which    *)
(* "/" is a token of its own (<<"https:", "/", "/", "a.example">>), an     *)
(* HTML document is a sequence whose elements are whitespace text nodes    *)
(* or anchor elements.        A list built from a Python set (line 148)    *)
(* has no defined order and is kept as the set of its elements.            *)
(***************************************************************************)
EXTENDS Integers, Sequences, FiniteSets, TLC

\* ---------------------------------------------------------------- bounds
MaxDomains == 2

\* ------------------------------------------------------ program constants
\* @retry(stop=stop_after_attempt(3), ...)
StopAfterAttempt == 3

\* ------------------------------------------------------------ input data
DomainA == <<"https:", "/", "/", "a.example">>
DomainB == <<"https:", "/", "/", "b.example">>
Domains == {DomainA, DomainB}

NoHref == <<>>
Anchor(h) == [tag |-> "a", href |-> h]
WS == [tag |-> "text", href |-> NoHref]

HrefDp      == <<"/", "dp", "/", "123">>
HrefAbout   == <<"/", "about">>
HrefProduct == <<"https:", "/", "/", "c.example", "/", "product", "/", "42">>

EmptyString == <<>>
Blank == <<WS>>
\* a page with product links and a page without
Doc1 == <<WS, Anchor(HrefDp), Anchor(HrefProduct), Anchor(HrefAbout), WS>>
Doc2 == <<Anchor(HrefAbout), Anchor(NoHref)>>

\* what page.content() / page.evaluate(...) can hand back
Contents == {EmptyString, Blank, Doc1, Doc2}

\* ------------------------------------------------------- pure functions
RECURSIVE LStrip(_)
LStrip(s) == IF s # <<>> /\ Head(s) = WS THEN LStrip(Tail(s)) ELSE s

RECURSIVE RStrip(_)
RStrip(s) ==
    IF s # <<>> /\ s[Len(s)] = WS THEN RStrip(SubSeq(s, 1, Len(s) - 1)) ELSE s

\* str.strip()
Strip(s) == RStrip(LStrip(s))

\* urllib.parse.urljoin for the two href shapes of the model: an href with a
\* scheme is kept, a root-relative href replaces the path of the base
urljoin(base, href) ==
    IF href # <<>> /\ Head(href) = "https:" THEN href
    ELSE IF href # <<>> /\ Head(href) = "/" THEN SubSeq(base, 1, 4) \o href
    ELSE base \o <<"/">> \o href

\* soup.find_all('a', href=True) and the set comprehension of line 33
extract_urls(html, base_url) ==
    { urljoin(base_url, html[k].href) :
        k \in { j \in 1..Len(html) : html[j].tag = "a" /\ html[j].href # NoHref } }

Lazy == ".*?"
product_patterns ==
    << <<"/", "dp", "/">>,
       <<"/", "gp", "/", "product", "/">>,
       <<"/", "men-">>,
       <<"/", "women-">>,
       <<"/", "kids">>,
       <<"/", "saree">>,
       <<"/", "product", "/">>,
       <<"/", Lazy, "Categories", Lazy>>,
       <<"/", Lazy, "Brand", Lazy>> >>

\* the pattern from position p matches the url from position u on
RECURSIVE MatchAt(_, _, _, _)
MatchAt(pattern, url, p, u) ==
    IF p > Len(pattern) THEN TRUE
    ELSE IF pattern[p] = Lazy
         THEN \E v \in u..(Len(url) + 1) : MatchAt(pattern, url, p + 1, v)
    ELSE u <= Len(url) /\ url[u] = pattern[p]
         /\ MatchAt(pattern, url, p + 1, u + 1)

\* re.search(pattern, url)
re_search(pattern, url) == \E u \in 1..Len(url) : MatchAt(pattern, url, 1, u)

filter_product_urls(urls) ==
    { url \in urls :
        \E k \in 1..Len(product_patterns) : re_search(product_patterns[k], url) }

\* ------------------------------------------------------------------ state
VARIABLES
    domains,     \* request.domains
    pc,          \* crawl_domains: "start", "gather", "returned", "failed"
    results,     \* the results dict of crawl_domains
    tpc,         \* crawl_domain i: "fetch", "done" (returned), "raised"
    calls,       \* the calls crawl_domain i has made, in order
    html,        \* crawl_domain i: the value fetch_html_with_playwright returned
    result,      \* crawl_domain i: its return value
    attempt,     \* fetch i: the number of the current attempt (tenacity)
    apc,         \* fetch i: the await the current attempt is suspended at
    playwright,  \* fetch i: the async_playwright() scope, "running"/"stopped"
    browser,     \* fetch i: the browser of the attempt, "none"/"open"/"closed"
    attemptLog,  \* fetch i: how each concluded attempt ended
    fault,       \* fetch i: the stage at which the attempt faulted, or "none"
    finished     \* the tasks of asyncio.gather in their order of completion

vars == <<domains, pc, results, tpc, calls, html, result, attempt, apc,
          playwright, browser, attemptLog, fault, finished>>

Tasks == 1..Len(domains)

RECURSIVE SeqsUpTo(_)
SeqsUpTo(n) ==
    IF n = 0 THEN {<<>>}
    ELSE SeqsUpTo(n - 1)
         \cup { Append(s, d) : s \in { t \in SeqsUpTo(n - 1) : Len(t) = n - 1 },
                               d \in Domains }

EmptyDict == [d \in {} |-> {}]

\* The requests of the model: every list of at most MaxDomains domains, up to
\* the renaming of the two domains (nothing below tells DomainA from DomainB
\* but their being different), so a non-empty list starts with DomainA.
Requests == { s \in SeqsUpTo(MaxDomains) : s = <<>> \/ s[1] = DomainA }

Init ==
    /\ domains \in Requests
    /\ pc = "start"
    /\ results = EmptyDict
    /\ tpc = [i \in Tasks |-> "created"]
    /\ calls = [i \in Tasks |-> <<>>]
    /\ html = [i \in Tasks |-> EmptyString]
    /\ result = [i \in Tasks |-> {}]
    /\ attempt = [i \in Tasks |-> 0]
    /\ apc = [i \in Tasks |-> "idle"]
    /\ playwright = [i \in Tasks |-> "stopped"]
    /\ browser = [i \in Tasks |-> "none"]
    /\ attemptLog = [i \in Tasks |-> <<>>]
    /\ fault = [i \in Tasks |-> "none"]
    /\ finished = <<>>

\* ------------------------------------------------------------ crawl_domain
\* crawl_domain without the test of line 144
crawl_domain_Unguarded(h, domain) ==
    [calls |-> <<"extract_urls", "filter_product_urls">>,
     value |-> filter_product_urls(extract_urls(h, domain))]

\* lines 144-148: what crawl_domain does with the fetched html
crawl_domain(h, domain) ==
    IF h = EmptyString
    THEN [calls |-> <<>>, value |-> {}]
    ELSE [calls |-> <<"extract_urls", "filter_product_urls">>,
          value |-> filter_product_urls(extract_urls(h, domain))]

\* --------------------------------------------- fetch_html_with_playwright
\* a try block that ends after the navigation
TryCatches_GotoOnly(stage) == stage = "goto"

\* the stages of the try block, whose exceptions line 81 catches
TryCatches(stage) == stage \in {"goto", "sleep", "content", "evaluate"}

\* a wrapper that also retries an empty result
Retry_OnEmpty(outcome, n) ==
    outcome \in {"raised", "empty"} /\ n < StopAfterAttempt

\* tenacity: retry_if_exception (the default) and stop_after_attempt
Retry(outcome, n) == outcome = "raised" /\ n < StopAfterAttempt

\* lines 75-79
ReturnValue(html_content) ==
    IF Len(Strip(html_content)) > 0 THEN html_content ELSE EmptyString

\* An attempt of task i concludes: the async-with scope of line 40 is left,
\* the retry wrapper decides, and on a returned value crawl_domain runs on to
\* its return (there is no await between lines 143 and 148).
AttemptEnds(i, outcome, value) ==
    /\ playwright' = [playwright EXCEPT ![i] = "stopped"]
    /\ attemptLog' = [attemptLog EXCEPT ![i] = Append(@, outcome)]
    /\ IF Retry(outcome, attempt[i])
       THEN /\ apc' = [apc EXCEPT ![i] = "wait"]
            /\ UNCHANGED <<tpc, calls, html, result, finished>>
       ELSE /\ apc' = [apc EXCEPT ![i] = "idle"]
            /\ finished' = Append(finished, i)
            /\ IF outcome = "raised"
               THEN \* RetryError leaves fetch_html_with_playwright and
                    \* crawl_domain, which has no handler
                    /\ tpc' = [tpc EXCEPT ![i] = "raised"]
                    /\ UNCHANGED <<calls, html, result>>
               ELSE /\ tpc' = [tpc EXCEPT ![i] = "done"]
                    /\ html' = [html EXCEPT ![i] = value]
                    /\ calls' = [calls EXCEPT
                                   ![i] = @ \o crawl_domain(value, domains[i]).calls]
                    /\ result' = [result EXCEPT
                                   ![i] = crawl_domain(value, domains[i]).value]

\* an exception at a stage of the attempt
StageFault(i, stage) ==
    /\ fault' = [fault EXCEPT ![i] = stage]
    /\ IF TryCatches(stage)
       THEN AttemptEnds(i, "empty", EmptyString)
       ELSE AttemptEnds(i, "raised", EmptyString)

Returns(i, value) ==
    /\ UNCHANGED fault
    /\ AttemptEnds(i, IF value = EmptyString THEN "empty" ELSE "content", value)

Running(i) == tpc[i] = "fetch"

\* lines 40-44: async_playwright() is entered and firefox is launched
Launch(i) ==
    /\ Running(i) /\ apc[i] = "launch"
    /\ playwright' = [playwright EXCEPT ![i] = "running"]
    /\ browser' = [browser EXCEPT ![i] = "open"]
    /\ apc' = [apc EXCEPT ![i] = "new_page"]
    /\ UNCHANGED <<domains, pc, results, tpc, calls, html, result, attempt,
                   attemptLog, fault, finished>>

LaunchFault(i) ==
    /\ Running(i) /\ apc[i] = "launch"
    /\ StageFault(i, "launch")
    /\ UNCHANGED <<domains, pc, results, attempt, browser>>

\* line 45
NewPage(i) ==
    /\ Running(i) /\ apc[i] = "new_page"
    /\ apc' = [apc EXCEPT ![i] = "set_extra_http_headers"]
    /\ UNCHANGED <<domains, pc, results, tpc, calls, html, result, attempt,
                   playwright, browser, attemptLog, fault, finished>>

NewPageFault(i) ==
    /\ Running(i) /\ apc[i] = "new_page"
    /\ StageFault(i, "new_page")
    /\ UNCHANGED <<domains, pc, results, attempt, browser>>

\* lines 48-55
SetHeaders(i) ==
    /\ Running(i) /\ apc[i] = "set_extra_http_headers"
    /\ apc' = [apc EXCEPT ![i] = "goto"]
    /\ UNCHANGED <<domains, pc, results, tpc, calls, html, result, attempt,
                   playwright, browser, attemptLog, fault, finished>>

SetHeadersFault(i) ==
    /\ Running(i) /\ apc[i] = "set_extra_http_headers"
    /\ StageFault(i, "set_extra_http_headers")
    /\ UNCHANGED <<domains, pc, results, attempt, browser>>

\* line 60
Goto(i) ==
    /\ Running(i) /\ apc[i] = "goto"
    /\ apc' = [apc EXCEPT ![i] = "sleep"]
    /\ UNCHANGED <<domains, pc, results, tpc, calls, html, result, attempt,
                   playwright, browser, attemptLog, fault, finished>>

GotoFault(i) ==
    /\ Running(i) /\ apc[i] = "goto"
    /\ StageFault(i, "goto")
    /\ UNCHANGED <<domains, pc, results, attempt, browser>>

\* line 64: asyncio.sleep(5); nothing cancels the task, so it cannot fault
Sleep(i) ==
    /\ Running(i) /\ apc[i] = "sleep"
    /\ apc' = [apc EXCEPT ![i] = "content"]
    /\ UNCHANGED <<domains, pc, results, tpc, calls, html, result, attempt,
                   playwright, browser, attemptLog, fault, finished>>

\* lines 68-79: page.content() answers; a blank answer leads to line 70
Content(i) ==
    /\ Running(i) /\ apc[i] = "content"
    /\ \E html_content \in Contents :
          IF Strip(html_content) = EmptyString
          THEN /\ apc' = [apc EXCEPT ![i] = "evaluate"]
               /\ UNCHANGED <<tpc, calls, html, result, playwright,
                              attemptLog, fault, finished>>
          ELSE Returns(i, ReturnValue(html_content))
    /\ UNCHANGED <<domains, pc, results, attempt, browser>>

ContentFault(i) ==
    /\ Running(i) /\ apc[i] = "content"
    /\ StageFault(i, "content")
    /\ UNCHANGED <<domains, pc, results, attempt, browser>>

\* lines 70-79
Evaluate(i) ==
    /\ Running(i) /\ apc[i] = "evaluate"
    /\ \E html_content \in Contents : Returns(i, ReturnValue(html_content))
    /\ UNCHANGED <<domains, pc, results, attempt, browser>>

EvaluateFault(i) ==
    /\ Running(i) /\ apc[i] = "evaluate"
    /\ StageFault(i, "evaluate")
    /\ UNCHANGED <<domains, pc, results, attempt, browser>>

\* wait_fixed(5) is over: the wrapper calls the function again
RetryWait(i) ==
    /\ Running(i) /\ apc[i] = "wait"
    /\ attempt' = [attempt EXCEPT ![i] = @ + 1]
    /\ apc' = [apc EXCEPT ![i] = "launch"]
    /\ browser' = [browser EXCEPT ![i] = "none"]
    /\ fault' = [fault EXCEPT ![i] = "none"]
    /\ UNCHANGED <<domains, pc, results, tpc, calls, html, result,
                   playwright, attemptLog, finished>>

\* ----------------------------------------------------------- crawl_domains
\* lines 154-157: one crawl_domain coroutine per list entry, handed to
\* asyncio.gather; each runs up to its first await, inside the first attempt
CrawlDomainsStart ==
    /\ pc = "start"
    /\ pc' = "gather"
    /\ tpc' = [i \in Tasks |-> "fetch"]
    /\ calls' = [i \in Tasks |-> <<"fetch_html_with_playwright">>]
    /\ attempt' = [i \in Tasks |-> 1]
    /\ apc' = [i \in Tasks |-> "launch"]
    /\ UNCHANGED <<domains, results, html, result, playwright, browser,
                   attemptLog, fault, finished>>

\* the results in the order in which the tasks completed
Responses_AsCompleted == [i \in Tasks |-> result[finished[i]]]

\* the list asyncio.gather returns: the results in the order of its arguments
Responses == [i \in Tasks |-> result[i]]

\* lines 158-159: for domain, urls in zip(...): results[domain] = urls
RECURSIVE Assemble(_, _, _)
Assemble(doms, resps, k) ==
    IF k = 0 THEN EmptyDict
    ELSE LET before == Assemble(doms, resps, k - 1)
         IN  [d \in DOMAIN before \cup {doms[k]} |->
                 IF d = doms[k] THEN resps[k] ELSE before[d]]

\* an assembly that keeps the first value stored under a key
RECURSIVE AssembleFirst(_, _, _)
AssembleFirst(doms, resps, k) ==
    IF k = 0 THEN EmptyDict
    ELSE LET before == AssembleFirst(doms, resps, k - 1)
         IN  [d \in DOMAIN before \cup {doms[k]} |->
                 IF d \in DOMAIN before THEN before[d] ELSE resps[k]]

AssembleResults_FirstWins(doms, resps) == AssembleFirst(doms, resps, Len(doms))

AssembleResults(doms, resps) == Assemble(doms, resps, Len(doms))

\* line 157 resumes with the list of results once every task has returned
GatherReturn ==
    /\ pc = "gather"
    /\ \A i \in Tasks : tpc[i] = "done"
    /\ results' = AssembleResults(domains, Responses)
    /\ pc' = "returned"
    /\ UNCHANGED <<domains, tpc, calls, html, result, attempt, apc,
                   playwright, browser, attemptLog, fault, finished>>

\* line 157 resumes with the exception of a task that raised (gather without
\* return_exceptions): the exception leaves crawl_domains; the other tasks
\* are not cancelled and go on running
GatherRaise ==
    /\ pc = "gather"
    /\ \E i \in Tasks : tpc[i] = "raised"
    /\ pc' = "failed"
    /\ UNCHANGED <<domains, results, tpc, calls, html, result, attempt, apc,
                   playwright, browser, attemptLog, fault, finished>>

Next ==
    \/ CrawlDomainsStart
    \/ GatherReturn
    \/ GatherRaise
    \/ \E i \in Tasks : Launch(i)
    \/ \E i \in Tasks : LaunchFault(i)
    \/ \E i \in Tasks : NewPage(i)
    \/ \E i \in Tasks : NewPageFault(i)
    \/ \E i \in Tasks : SetHeaders(i)
    \/ \E i \in Tasks : SetHeadersFault(i)
    \/ \E i \in Tasks : Goto(i)
    \/ \E i \in Tasks : GotoFault(i)
    \/ \E i \in Tasks : Sleep(i)
    \/ \E i \in Tasks : Content(i)
    \/ \E i \in Tasks : ContentFault(i)
    \/ \E i \in Tasks : Evaluate(i)
    \/ \E i \in Tasks : EvaluateFault(i)
    \/ \E i \in Tasks : RetryWait(i)

Spec == Init /\ [][Next]_vars

\* ------------------------------------------------------------- properties
Concluded == pc \in {"returned", "failed"}

Distinct == \A i, j \in Tasks : i # j => domains[i] # domains[j]

\* the last list entry that holds domain d
LastIndex(d) ==
    CHOOSE i \in Tasks : domains[i] = d /\ \A j \in Tasks : j > i => domains[j] # d

\* task i completed before task j
Before(i, j) ==
    \E m, n \in 1..Len(finished) : m < n /\ finished[m] = i /\ finished[n] = j

\* the fetch of task i yielded no content: it raised or returned ""
CrawlFailed(i) ==
    tpc[i] = "raised" \/ (tpc[i] = "done" /\ html[i] = EmptyString)

AllRaised(log) == \A k \in 1..Len(log) : log[k] = "raised"

IsPrefix(s, t) == Len(s) <= Len(t) /\ s = SubSeq(t, 1, Len(s))

CallOrder == <<"fetch_html_with_playwright", "extract_urls", "filter_product_urls">>

\* C1: a concluded batch call has returned a results mapping whose keys are
\* exactly the domains of the request, and a domain whose crawl failed, by
\* whatever fault, maps to the empty list.
C1_EveryDomainKeyed ==
    Concluded =>
        /\ pc = "returned"
        /\ DOMAIN results = { domains[i] : i \in Tasks }
        /\ \A i \in Tasks :
              (i = LastIndex(domains[i]) /\ CrawlFailed(i))
                  => results[domains[i]] = {}

\* C2: the total failure of one domain's crawl never makes the batch call
\* fail, and leaves every other domain with the result of its own crawl.
C2_FailureIsolation ==
    \A i \in Tasks :
        (Concluded /\ CrawlFailed(i)) =>
            /\ pc = "returned"
            /\ \A j \in Tasks :
                  domains[j] # domains[i]
                      => results[domains[j]] = result[LastIndex(domains[j])]

\* C3: the batch call concludes, with a result or with an error, only after
\* every crawl it scheduled has completed.
C3_ConcludesAfterAllCrawls ==
    Concluded => \A i \in Tasks : tpc[i] \in {"done", "raised"}

\* C4: when all 3 attempts of a fetch have raised, the fetch returns the
\* empty string and crawl_domain returns the empty list; nothing is raised.
C4_ExhaustionSwallowed ==
    \A i \in Tasks :
        (Len(attemptLog[i]) = StopAfterAttempt /\ AllRaised(attemptLog[i]))
            => tpc[i] = "done" /\ html[i] = EmptyString /\ result[i] = {}

C6_OwnResult ==
    (pc = "returned" /\ Distinct)
        => \A i \in Tasks : results[domains[i]] = result[i]

\* two distinct domains with different results, the later entry done first
C6_Witness ==
    /\ pc = "returned" /\ Distinct
    /\ \E i, j \in Tasks : i < j /\ Before(j, i) /\ result[i] # result[j]

\* C7: with a domain listed more than once, every list entry has had its own
\* crawl, the mapping has one key per distinct domain, and the domain maps to
\* the result of its last list entry, whichever duplicate completed last.
C7_LastWriteWins ==
    pc = "returned" =>
        /\ Len(finished) = Len(domains)
        /\ \A i \in Tasks : tpc[i] = "done" /\ attemptLog[i] # <<>>
        /\ DOMAIN results = { domains[i] : i \in Tasks }
        /\ \A i, j \in Tasks :
              (i < j /\ domains[i] = domains[j])
                  => results[domains[i]] = result[LastIndex(domains[i])]

\* a duplicated domain whose earlier entry completed last, with another result
C7_Witness ==
    /\ pc = "returned"
    /\ \E i, j \in Tasks :
          /\ i < j /\ domains[i] = domains[j] /\ j = LastIndex(domains[j])
          /\ Before(j, i) /\ result[i] # result[j]

\* C8: crawl_domain calls fetch, extract, filter in this order, and after a
\* fetch that returned empty content it returns the empty list having called
\* neither extract_urls nor filter_product_urls.
C8_EmptyFetchSkipsExtraction ==
    \A i \in Tasks :
        /\ IsPrefix(calls[i], CallOrder)
        /\ (tpc[i] = "done" /\ html[i] = EmptyString)
              => calls[i] = <<"fetch_html_with_playwright">> /\ result[i] = {}

\* a crawl whose fetch returned empty content, and one that went on to filter
C8_Witness ==
    /\ \E i \in Tasks : tpc[i] = "done" /\ html[i] = EmptyString
    /\ \E i \in Tasks : tpc[i] = "done" /\ calls[i] = CallOrder

\* C9: a fetch makes at most 3 attempts, every attempt but the last one made
\* ended raising, and an attempt that returned a value, content or the empty
\* string, ended the call.
C9_RetryOnlyAfterRaise ==
    \A i \in Tasks :
        /\ attempt[i] <= StopAfterAttempt
        /\ Len(attemptLog[i]) <= StopAfterAttempt
        /\ \A k \in 1..(Len(attemptLog[i]) - 1) : attemptLog[i][k] = "raised"
        /\ (attemptLog[i] # <<>> /\ attemptLog[i][Len(attemptLog[i])] # "raised")
              => tpc[i] = "done" /\ apc[i] = "idle"

\* a fetch whose third attempt returned empty content after two raised
C9_Witness ==
    \E i \in Tasks : attemptLog[i] = <<"raised", "raised", "empty">>

\* C10: an exception in the navigation, the settle delay or the retrieval is
\* turned into an empty-string result of that attempt: the attempt is the last
\* of the fetch, and crawl_domain gets "" and returns the empty list.
C10_NavigationFaultCaught ==
    \A i \in Tasks :
        fault[i] \in {"goto", "sleep", "content", "evaluate"} =>
            /\ tpc[i] = "done" /\ apc[i] = "idle"
            /\ attempt[i] = Len(attemptLog[i])
            /\ attemptLog[i][Len(attemptLog[i])] = "empty"
            /\ html[i] = EmptyString /\ result[i] = {}

\* a first attempt whose navigation faulted, one whose retrieval faulted
C10_Witness ==
    /\ \E i \in Tasks : fault[i] = "goto" /\ attempt[i] = 1
    /\ \E i \in Tasks : fault[i] \in {"content", "evaluate"}

====
